---- MODULE Spec2Model ----
(***************************************************************************)
(* A model of src/ds2438.c: the bit-banged 1-Wire master (reset, byte      *)
(* I/O), the ROM search (_search_next / _search_devices / ds2438_search),  *)
(* the scratchpad transaction (ds2438_read_slave) and the measurement      *)
(* sequence (ds2438_measure).                                              *)
(*                                                                         *)
(* Bytes are naturals in 0..255; the 8-byte address and the 9-byte         *)
(* scratchpad buffer are sequences, so C index k is TLA+ index k + 1.      *)
(* The bus is the environment: a population of devices answering on a      *)
(* wired-AND line, which is either fault free or (faulty = TRUE) subject   *)
(* to arbitrary presence samples and glitched search samples.              *)
(***************************************************************************)
EXTENDS Integers, Sequences, FiniteSets, TLC

(***************************************************************************)
(* Bounds of the model.                                                    *)
(***************************************************************************)
\* number of devices in the universe the bus population is drawn from
NumDevices == 4
\* the caller's capacity len holds at most this many 8-byte slots
MaxSlots == 3
\* a faulty bus corrupts at most this many search samples in one operation
MaxGlitches == 1

(***************************************************************************)
(* Bit arithmetic on C integers.                                           *)
(***************************************************************************)
Pow2(n) == 2 ^ n

\* bit n of x (0 or 1)
Bit(x, n) == (x \div Pow2(n)) % 2

\* bit n of the bitwise AND, OR and XOR of a and b, in place
AndBit(a, b, n) == Bit(a, n) * Bit(b, n) * Pow2(n)
OrBit(a, b, n) == (IF Bit(a, n) + Bit(b, n) > 0 THEN 1 ELSE 0) * Pow2(n)
XorBit(a, b, n) == ((Bit(a, n) + Bit(b, n)) % 2) * Pow2(n)

\* a & b, a | b and a ^ b on 8-bit operands
And8(a, b) ==
    AndBit(a, b, 0) + AndBit(a, b, 1) + AndBit(a, b, 2) + AndBit(a, b, 3)
    + AndBit(a, b, 4) + AndBit(a, b, 5) + AndBit(a, b, 6) + AndBit(a, b, 7)
Or8(a, b) ==
    OrBit(a, b, 0) + OrBit(a, b, 1) + OrBit(a, b, 2) + OrBit(a, b, 3)
    + OrBit(a, b, 4) + OrBit(a, b, 5) + OrBit(a, b, 6) + OrBit(a, b, 7)
Xor8(a, b) ==
    XorBit(a, b, 0) + XorBit(a, b, 1) + XorBit(a, b, 2) + XorBit(a, b, 3)
    + XorBit(a, b, 4) + XorBit(a, b, 5) + XorBit(a, b, 6) + XorBit(a, b, 7)

\* (uint8_t) of a non-negative int
U8(x) == x % 256

(***************************************************************************)
(* CRC-8 (lines 53-62), over avr-libc's _crc_ibutton_update.               *)
(***************************************************************************)
RECURSIVE CrcShift(_, _)
\* the 8 shift steps of _crc_ibutton_update: polynomial 0x8C, LSB first
CrcShift(crc, n) ==
    IF n = 0 THEN crc
    ELSE CrcShift(IF crc % 2 = 1 THEN Xor8(crc \div 2, 140) ELSE crc \div 2, n - 1)

\* the 8 shift steps applied to each byte value, computed once
CrcShifted == [c \in 0..255 |-> CrcShift(c, 8)]

\* crc = crc ^ data, then the 8 shift steps, for each pair of byte values
CrcUpdated ==
    [crc \in 0..255 |-> [data \in 0..255 |-> CrcShifted[Xor8(crc, data)]]]

_crc_ibutton_update(crc, data) == CrcUpdated[crc][data]

RECURSIVE CrcLoop(_, _, _, _)
\* the loop of crc8: for (i = 0; i < len; ++i) crc = update(crc, data[i])
CrcLoop(crc, data, i, len) ==
    IF i < len THEN CrcLoop(_crc_ibutton_update(crc, data[i + 1]), data, i + 1, len)
    ELSE crc

\* crc8 with its loop bound len - 1: the last byte is left out
crc8_SkipsLastByte(data, len) == CrcLoop(0, data, 0, len - 1)

crc8(data, len) == CrcLoop(0, data, 0, len)

(***************************************************************************)
(* Program constants.                                                      *)
(***************************************************************************)
kConvertTCommand == 68      \* 0x44
kConvertVCommand == 180     \* 0xB4
kRecallPage == 184          \* 0xB8
kReadScatchPad == 190       \* 0xBE
kScratchPad_TLSB == 1
kScratchPad_TMSB == 2
kScratchPad_VLSB == 3
kScratchPad_VMSB == 4
kScratchPad_CRC == 8
kDS2438_DeviceNotFound == 43008     \* 0xA800
kDS2438_CrcCheckFailed == 20480     \* 0x5000
\* the values of "reading" in _search_next: bit | complement << 1
kConflict == 0
kZero == 2
kOne == 1
\* "Search ROM", the command onewire_search passes to _search_devices
kSearchRom == 240           \* 0xF0
\* "Skip ROM", the broadcast select
kSkipRom == 204             \* 0xCC
\* "Write scratchpad"
kWriteScratchPad == 78      \* 0x4E

(***************************************************************************)
(* The environment: the devices on the bus.                                *)
(***************************************************************************)
\* serial byte (ROM byte 1) of the k-th device of the universe
SerialBytes == <<0, 2, 10, 6, 4, 8, 12, 14>>

\* ROM bytes 0..6 of device k: family code 0x26 (DS2438), a serial byte, zeros
RomPrefix(k) == <<38, SerialBytes[k], 0, 0, 0, 0, 0>>

\* ROM code of device k. Device 1 carries a corrupted checksum byte.
Rom(k) ==
    LET c == crc8(RomPrefix(k), 7)
    IN  Append(RomPrefix(k), IF k = 1 THEN Xor8(c, 1) ELSE c)

Universe == {Rom(k) : k \in 1..NumDevices}

\* bit p (0..63) of an 8-byte address
AddrBit(a, p) == Bit(a[(p \div 8) + 1], p % 8)

\* what the master samples in the two read slots of a search bit on a
\* wired-AND line: a device answering 0 pulls the line low
WiredReading(act, p) ==
    LET b == IF \A d \in act : AddrBit(d, p) = 1 THEN 1 ELSE 0
        c == IF \A d \in act : AddrBit(d, p) = 0 THEN 1 ELSE 0
    IN  b + 2 * c

\* bit positions whose samples a faulty bus may corrupt: the two low bits
\* of the serial byte
InGlitchWindow(p) == p \in {8, 9}

\* the capacities a caller passes: none, every slot count below MaxSlots
\* with 7 spare bytes, and MaxSlots slots exactly
Lens == {0, 8 * MaxSlots} \cup {8 * k + 7 : k \in 0..(MaxSlots - 1)}

\* the caller's buffer as the model sees it: room beyond every len
BufDomain == 0..(8 * MaxSlots + 23)

ZeroAddress == <<0, 0, 0, 0, 0, 0, 0, 0>>

\* the 9-byte buffer of ds2438_measure before anything is read into it
NoBuffer == <<-1, -1, -1, -1, -1, -1, -1, -1, -1>>

\* the caller's text buffer before any line is written to it
Blank == <<>>

\* the values byte k (0..8) of a scratchpad frame is drawn from, given the
\* bytes read before it: a checksum byte that matches and one that does not
ScratchBytes(k, b) ==
    CASE k = 1 -> {0, 48}               \* temperature LSB
      [] k = 2 -> {0, 25, 128, 255}     \* temperature MSB
      [] k = 3 -> {0, 244}              \* voltage LSB
      [] k = 4 -> {0, 1}                \* voltage MSB
      [] k = 8 -> {crc8(b, 8), Xor8(crc8(b, 8), 1)}
      [] OTHER -> {0}

VARIABLES
    pc,                 \* position of the running operation; "returned" when it
                        \* has ended, "idle" once the caller has taken the results
    devices,            \* ROM codes of the devices on the bus
    faulty,             \* TRUE: presence and glitch-window samples are arbitrary
    active,             \* devices still answering in the current search pass
    state,              \* onewire_search_state: lastZeroBranch, done, address
    bitPosition,        \* loop variable of _search_next
    localLastZeroBranch,\* local of _search_next
    i,                  \* uint8_t i of ds2438_search
    len,                \* capacity argument of ds2438_search
    buf,                \* the caller's buffer, -1 where never written
    found,              \* *found, -1 before it is written
    searchRet,          \* last value returned by onewire_search
    endCause,           \* history: why the last search step returned false
    yielded,            \* history: addresses of the successful search steps
    glitches,           \* history: corrupted search samples so far
    written,            \* history: bits sent by onewire_write_bit in this search step
    conflicts,          \* history: positions whose reading was 00 in this search step
    pinDir,             \* direction the pin is configured for: "output" or "input"
    pinOk,              \* history: no bit was written and no sample taken in the
                        \* wrong pin direction
    trace,              \* history: bus operations of the running operation
    mpc,                \* ds2438_measure: index of the next entry of MeasureOps
    rpc,                \* ds2438_read_slave: index of the next entry of ReadSlaveOps
    page,               \* argument of ds2438_read_slave
    buffer,             \* uint8_t buffer[9] of ds2438_measure, -1 where indeterminate
    reading,            \* value returned by ds2438_read_slave
    vad,                \* const uint16_t vad, -1 before it is computed
    output,             \* the caller's text buffer
    outputAtCall,       \* history: the text buffer when ds2438_measure was called
    measureRet,         \* value returned by ds2438_measure, once pc = "returned"
    crcOk,              \* history: per frame read, whether its checksum matched
    traceAtCall         \* history: length of trace when ds2438_read_slave was called

vars == <<pc, devices, faulty, active, state, bitPosition, localLastZeroBranch,
          i, len, buf, found, searchRet, endCause, yielded, glitches, written,
          conflicts, pinDir, pinOk, trace, mpc, rpc, page, buffer, reading, vad,
          output, outputAtCall, measureRet, crcOk, traceAtCall>>

measureVars == <<mpc, rpc, page, buffer, reading, vad, output, outputAtCall,
                 measureRet, crcOk, traceAtCall>>

searchVars == <<active, state, bitPosition, localLastZeroBranch, i, len, buf,
                found, searchRet, endCause, yielded, glitches, written,
                conflicts>>

Ev(op, arg) == [op |-> op, arg |-> arg]

\* ds2438_search lines 330-335: a fresh search state
FreshState == [lastZeroBranch |-> -1, done |-> FALSE, address |-> ZeroAddress]

Init ==
    /\ pc = "idle"
    /\ devices = {}
    /\ faulty = FALSE
    /\ active = {}
    /\ state = FreshState
    /\ bitPosition = 0
    /\ localLastZeroBranch = -1
    /\ i = 0
    /\ len = 0
    /\ buf = [j \in BufDomain |-> -1]
    /\ found = -1
    /\ searchRet = FALSE
    /\ endCause = "none"
    /\ yielded = <<>>
    /\ glitches = 0
    /\ written = <<>>
    /\ conflicts = {}
    /\ pinDir = "input"
    /\ pinOk = TRUE
    /\ traceAtCall = 0
    /\ trace = <<>>
    /\ mpc = 0
    /\ rpc = 0
    /\ page = 0
    /\ buffer = NoBuffer
    /\ reading = 0
    /\ vad = -1
    /\ output = Blank
    /\ outputAtCall = Blank
    /\ measureRet = FALSE
    /\ crcOk = <<>>

(***************************************************************************)
(* The pin: each bus primitive is the sequence of its pin operations.      *)
(* "out" is gpio_configure_output, "in" is gpio_configure_input_hiz,       *)
(* "wbit" is a call of onewire_write_bit, "sample" is gpio_input_read.     *)
(***************************************************************************)
\* the pin after one pin operation: a bit written while the pin is not an
\* output, or a sample taken while it is not an input, clears ok
PinStep(p, op) ==
    CASE op = "out" -> [p EXCEPT !.dir = "output"]
      [] op = "in" -> [p EXCEPT !.dir = "input"]
      [] op = "wbit" -> [p EXCEPT !.ok = p.ok /\ p.dir = "output"]
      [] op = "sample" -> [p EXCEPT !.ok = p.ok /\ p.dir = "input"]

RECURSIVE RunPin(_, _)
\* the pin after a sequence of pin operations
RunPin(p, ops) ==
    IF ops = <<>> THEN p ELSE RunPin(PinStep(p, Head(ops)), Tail(ops))

\* lines 64-87: output, reset pulse, input, presence sample
onewire_reset == <<"out", "in", "sample">>

\* lines 93-117: one write slot, no change of direction
onewire_write_bit == <<"wbit">>

\* onewire_write without its gpio_configure_output
onewire_write_NotConfigured ==
    onewire_write_bit \o onewire_write_bit \o onewire_write_bit
    \o onewire_write_bit \o onewire_write_bit \o onewire_write_bit
    \o onewire_write_bit \o onewire_write_bit

\* lines 121-134: output, then 8 write slots
onewire_write ==
    <<"out">> \o onewire_write_bit \o onewire_write_bit \o onewire_write_bit
    \o onewire_write_bit \o onewire_write_bit \o onewire_write_bit
    \o onewire_write_bit \o onewire_write_bit

\* lines 140-159: output for the slot start, input, sample
onewire_read_bit == <<"out", "in", "sample">>

\* lines 161-178: input, then 8 read slots
onewire_read ==
    <<"in">> \o onewire_read_bit \o onewire_read_bit \o onewire_read_bit
    \o onewire_read_bit \o onewire_read_bit \o onewire_read_bit
    \o onewire_read_bit \o onewire_read_bit

\* lines 229-235: the two read slots of one iteration of _search_next
SearchSample == <<"in">> \o onewire_read_bit \o onewire_read_bit

\* lines 280-285: output, then the write slot of the chosen bit
SearchWrite == <<"out">> \o onewire_write_bit

\* the running operation performs the pin operations ops
Drive(ops) ==
    LET p == RunPin([dir |-> pinDir, ok |-> pinOk], ops)
    IN  /\ pinDir' = p.dir
        /\ pinOk' = p.ok

(***************************************************************************)
(* onewire_reset (lines 64-87): the presence sample.                       *)
(***************************************************************************)
\* the values "result == 0" can take: a device on a fault-free bus always
\* answers the reset pulse
Presence == IF faulty THEN BOOLEAN ELSE {devices # {}}

(***************************************************************************)
(* ds2438_search (lines 328-341) and the search it drives.                 *)
(***************************************************************************)
\* entry: lines 330-335, on a bus whose condition is one of faults
CallSearchOn(faults) ==
    /\ pc = "idle"
    /\ \E devs \in SUBSET Universe, f \in faults, l \in Lens :
          /\ devices' = devs
          /\ faulty' = f
          /\ len' = l
    /\ \E dir \in {"input", "output"} : pinDir' = dir
    /\ pinOk' = TRUE
    /\ written' = <<>>
    /\ conflicts' = {}
    /\ state' = FreshState
    /\ i' = 0
    /\ buf' = [j \in BufDomain |-> -1]
    /\ found' = -1
    /\ active' = {}
    /\ bitPosition' = 0
    /\ localLastZeroBranch' = -1
    /\ searchRet' = FALSE
    /\ endCause' = "none"
    /\ yielded' = <<>>
    /\ glitches' = 0
    /\ trace' = <<>>
    /\ pc' = "search_loop"
    /\ UNCHANGED measureVars

\* ds2438_search is called on a fault-free or on a faulty bus
CallSearch == CallSearchOn(BOOLEAN)

\* ds2438_search is called on a fault-free bus
CallSearchFaultFree == CallSearchOn({FALSE})

\* a search step that reports a bus fault as success
StepStatus_FaultAsSuccess(cause) == cause = "busFault"

\* the value _search_devices returns when it fails: line 304 (the previous
\* search was the end), line 309 (no presence), line 270 (the reading 11)
StepStatus(cause) ==
    CASE cause = "done" -> FALSE
      [] cause = "noPresence" -> FALSE
      [] cause = "busFault" -> FALSE

\* onewire_search returned false: the while loop ends, line 340 runs
SearchFinish(cause) ==
    /\ searchRet' = StepStatus(cause)
    /\ endCause' = cause
    /\ found' = i
    /\ pc' = "returned"

\* _search_devices lines 302-305: the previous search was the end
SearchDevicesDone ==
    /\ pc = "search_loop"
    /\ state.done
    /\ SearchFinish("done")
    /\ UNCHANGED <<devices, faulty, active, state, bitPosition,
                   localLastZeroBranch, i, len, buf, yielded, glitches, trace,
                   written, conflicts, pinDir, pinOk>>
    /\ UNCHANGED measureVars

\* a reset of _search_devices whose failure is not tested
SearchResetFails_Ignored(present) == FALSE

\* line 307: if (!onewire_reset(io))
SearchResetFails(present) == ~present

\* a failed reset that also restarts the enumeration
StateAfterFailedReset_Restarted(st) == FreshState

\* lines 307-310: the return of line 309 assigns nothing to *state
StateAfterFailedReset(st) == st

\* _search_devices lines 307-310: reset, and bail out without presence
SearchDevicesReset ==
    /\ pc = "search_loop"
    /\ ~state.done
    /\ Drive(onewire_reset)
    /\ \E present \in Presence :
          /\ trace' = Append(trace, Ev("reset", IF present THEN 1 ELSE 0))
          /\ IF SearchResetFails(present)
             THEN /\ SearchFinish("noPresence")
                  /\ state' = StateAfterFailedReset(state)
             ELSE /\ pc' = "search_cmd"
                  /\ UNCHANGED <<searchRet, endCause, found, state>>
    /\ UNCHANGED <<devices, faulty, active, bitPosition,
                   localLastZeroBranch, i, len, buf, yielded, glitches,
                   written, conflicts>>
    /\ UNCHANGED measureVars

\* _search_devices line 312, and the locals of _search_next (216-222)
SearchDevicesCommand ==
    /\ pc = "search_cmd"
    /\ trace' = Append(trace, Ev("write", kSearchRom))
    /\ Drive(onewire_write)
    /\ active' = devices
    /\ bitPosition' = 0
    /\ localLastZeroBranch' = -1
    /\ written' = <<>>
    /\ conflicts' = {}
    /\ pc' = "search_bit"
    /\ UNCHANGED <<devices, faulty, state, i, len, buf, found, searchRet,
                   endCause, yielded, glitches>>
    /\ UNCHANGED measureVars

\* the samples the two read slots of bit p can return (lines 233-235)
Readings(p) ==
    IF faulty /\ InGlitchWindow(p) /\ glitches < MaxGlitches
    THEN 0..3 ELSE {WiredReading(active, p)}

\* line 254: the previous address byte masked with 1 << bitIndex
ReplayBit(st, p) == And8(st.address[(p \div 8) + 1], Pow2(p % 8))

\* lines 248-259: the bit to send at a conflict
ConflictBit(st, p) ==
    IF p = st.lastZeroBranch THEN 1
    ELSE IF p < st.lastZeroBranch THEN ReplayBit(st, p)
    ELSE 0

\* lines 237-266: bitValue for a sample ("reading") other than 11
BitValue(sample, st, p) ==
    IF sample = kConflict THEN ConflictBit(st, p) ELSE sample % 2

\* the store without its clearing branch: a zero leaves the byte as it was
StoreBit_NeverClears(address, p, bitValue) ==
    [address EXCEPT ![(p \div 8) + 1] =
        Or8(@, U8(bitValue * Pow2(p % 8)))]

\* lines 273-278: write bitValue into the address
StoreBit(address, p, bitValue) ==
    LET byteIndex == p \div 8
        bitIndex == p % 8
        old == address[byteIndex + 1]
    IN  [address EXCEPT ![byteIndex + 1] =
            IF bitValue = 0
            THEN And8(old, 255 - Pow2(bitIndex))
            ELSE Or8(old, U8(bitValue * Pow2(bitIndex)))]

\* every conflict remembered as a zero branch, whatever bit was written
LocalBranch_AnyConflict(sample, bitValue, p, local) ==
    IF sample = kConflict THEN p ELSE local

\* the last zero branch taken as the first one of the step
LocalBranch_FirstOnly(sample, bitValue, p, local) ==
    IF sample = kConflict /\ bitValue = 0 /\ local = -1 THEN p ELSE local

\* lines 261-264 (inside case kConflict): remember the last branch where a
\* zero was written
LocalBranch(sample, bitValue, p, local) ==
    IF sample = kConflict /\ bitValue = 0 THEN p ELSE local

\* one iteration of the loop of _search_next (lines 222-286)
SearchBit ==
    /\ pc = "search_bit"
    /\ bitPosition < 64
    /\ \E sample \in Readings(bitPosition) :
          /\ glitches' = IF sample = WiredReading(active, bitPosition)
                         THEN glitches ELSE glitches + 1
          /\ IF sample \notin {kZero, kOne, kConflict}
             THEN \* line 270: return false
                  /\ SearchFinish("busFault")
                  /\ Drive(SearchSample)
                  /\ UNCHANGED <<active, state, bitPosition, localLastZeroBranch,
                                 written, conflicts>>
             ELSE LET bitValue == BitValue(sample, state, bitPosition)
                  IN  /\ localLastZeroBranch' =
                            LocalBranch(sample, bitValue, bitPosition,
                                        localLastZeroBranch)
                      /\ Drive(SearchSample \o SearchWrite)
                      /\ written' = Append(written, IF bitValue # 0 THEN 1 ELSE 0)
                      /\ conflicts' = IF sample = kConflict
                                      THEN conflicts \cup {bitPosition}
                                      ELSE conflicts
                      /\ state' = [state EXCEPT
                            !.address = StoreBit(@, bitPosition, bitValue)]
                      \* onewire_write_bit: devices whose bit differs drop off
                      /\ active' = {d \in active : AddrBit(d, bitPosition)
                                         = IF bitValue # 0 THEN 1 ELSE 0}
                      /\ bitPosition' = bitPosition + 1
                      /\ UNCHANGED <<searchRet, endCause, found, pc>>
    /\ UNCHANGED <<devices, faulty, i, len, buf, yielded, trace>>
    /\ UNCHANGED measureVars

\* the end of _search_next with the test inverted
SearchEnd_Inverted(st, local) ==
    IF local # -1 THEN [st EXCEPT !.done = TRUE]
    ELSE [st EXCEPT !.lastZeroBranch = local]

\* lines 288-294: mark the search done or remember the last zero branch
SearchEnd(st, local) ==
    IF local = -1 THEN [st EXCEPT !.done = TRUE]
    ELSE [st EXCEPT !.lastZeroBranch = local]

\* lines 288-297: _search_next read a whole address and returns true
SearchNextReturn ==
    /\ pc = "search_bit"
    /\ bitPosition = 64
    /\ state' = SearchEnd(state, localLastZeroBranch)
    /\ searchRet' = TRUE
    /\ yielded' = Append(yielded, state.address)
    /\ pc' = "search_store"
    /\ UNCHANGED <<devices, faulty, active, bitPosition, localLastZeroBranch,
                   i, len, buf, found, endCause, glitches, trace, written,
                   conflicts, pinDir, pinOk>>
    /\ UNCHANGED measureVars

\* line 325
onewire_check_rom_crc(st) == st.address[8] = crc8(st.address, 7)

\* the capacity test with the slot's first byte only
HasRoom_FirstByteOnly(n, l) == 8 * n < l

\* line 336: 8 * (i + 1) <= len
HasRoom(n, l) == 8 * (n + 1) <= l

\* line 337
StoreChecked(st) == onewire_check_rom_crc(st)

\* line 338: memcpy(&buf[8 * i], &state.address, 8)
Memcpy(b, n, address) ==
    [j \in DOMAIN b |->
        IF 8 * n <= j /\ j < 8 * n + 8 THEN address[j - 8 * n + 1] ELSE b[j]]

\* lines 336-340 after a successful onewire_search: the capacity test, the
\* body of the loop, and *found = i when the loop ends
SearchStore ==
    /\ pc = "search_store"
    /\ IF HasRoom(i, len)
       THEN /\ IF StoreChecked(state)
               THEN /\ buf' = Memcpy(buf, i, state.address)
                    /\ i' = U8(i + 1)
               ELSE UNCHANGED <<buf, i>>
            /\ pc' = "search_loop"
            /\ UNCHANGED <<found, endCause>>
       ELSE /\ found' = i
            /\ endCause' = "capacity"
            /\ pc' = "returned"
            /\ UNCHANGED <<buf, i>>
    /\ UNCHANGED <<devices, faulty, active, state, bitPosition,
                   localLastZeroBranch, len, searchRet, yielded, glitches, trace,
                   written, conflicts, pinDir, pinOk>>
    /\ UNCHANGED measureVars

(***************************************************************************)
(* ds2438_read_slave (lines 343-372) and ds2438_measure (lines 374-450):   *)
(* both are straight-line sequences of bus operations, kept as tables.     *)
(***************************************************************************)
Op(k, b) == [k |-> k, b |-> b]

\* ds2438_read_slave with the two commands exchanged: the scratchpad is read
\* before the page is recalled into it
ReadSlaveOps_ReadBeforeRecall == <<
    Op("reset", 0), Op("write", kSkipRom), Op("write", kReadScatchPad),
    Op("page", 0),
    Op("reset", 0), Op("write", kSkipRom), Op("write", kRecallPage),
    Op("page", 0),
    Op("read", 0), Op("read", 1), Op("read", 2), Op("read", 3), Op("read", 4),
    Op("read", 5), Op("read", 6), Op("read", 7), Op("read", 8),
    Op("check", 0) >>

\* the bus operations of ds2438_read_slave, in program order; "page" stands
\* for the page argument
ReadSlaveOps == <<
    Op("reset", 0),                 \* 346
    Op("write", kSkipRom),          \* 350
    Op("write", kRecallPage),       \* 351
    Op("page", 0),                  \* 352
    Op("reset", 0),                 \* 354
    Op("write", kSkipRom),          \* 358
    Op("write", kReadScatchPad),    \* 359
    Op("page", 0),                  \* 360
    Op("read", 0), Op("read", 1), Op("read", 2), Op("read", 3), Op("read", 4),
    Op("read", 5), Op("read", 6), Op("read", 7), Op("read", 8),    \* 362-364
    Op("check", 0) >>               \* 367-371

\* ds2438_measure with its first two conversions exchanged: voltage before
\* temperature
MeasureOps_VoltageFirst == <<
    Op("reset", 0), Op("write", kSkipRom), Op("write", kWriteScratchPad),
    Op("write", 0), Op("write", 0),
    Op("reset", 0), Op("write", kSkipRom), Op("write", kConvertVCommand),
    Op("reset", 0), Op("write", kSkipRom), Op("write", kConvertTCommand),
    Op("read_slave", 0), Op("vad", 0),
    Op("reset", 0), Op("write", kSkipRom), Op("write", kWriteScratchPad),
    Op("write", 0), Op("write", 8),
    Op("reset", 0), Op("write", kSkipRom), Op("write", kConvertVCommand),
    Op("reset", 0),
    Op("read_slave", 0), Op("result", 0) >>

\* the steps of ds2438_measure, in program order
MeasureOps == <<
    Op("reset", 0),                 \* 378
    Op("write", kSkipRom),          \* 381
    Op("write", kWriteScratchPad),  \* 384
    Op("write", 0),                 \* 385
    Op("write", 0),                 \* 386: VAD
    Op("reset", 0),                 \* 389
    Op("write", kSkipRom),          \* 392
    Op("write", kConvertTCommand),  \* 393
    Op("reset", 0),                 \* 396
    Op("write", kSkipRom),          \* 399
    Op("write", kConvertVCommand),  \* 400
    Op("read_slave", 0),            \* 403
    Op("vad", 0),                   \* 404-410
    Op("reset", 0),                 \* 413
    Op("write", kSkipRom),          \* 416
    Op("write", kWriteScratchPad),  \* 419
    Op("write", 0),                 \* 420
    Op("write", 8),                 \* 421: VDD
    Op("reset", 0),                 \* 423
    Op("write", kSkipRom),          \* 426
    Op("write", kConvertVCommand),  \* 427
    Op("reset", 0),                 \* 430
    Op("read_slave", 0),            \* 434
    Op("result", 0) >>              \* 435-449

\* a line the text buffer may hold from an earlier measurement
StaleLine == [temp_integer |-> 25, temp_frac |-> 192, vad |-> 2560, vdd |-> 5000]

\* entry of ds2438_measure: broadcast addressing, so at most one device
CallMeasure ==
    /\ pc = "idle"
    /\ \E devs \in {{}, {Rom(2)}}, f \in BOOLEAN, text \in {Blank, StaleLine} :
          /\ devices' = devs
          /\ faulty' = f
          /\ output' = text
          /\ outputAtCall' = text
    /\ \E dir \in {"input", "output"} : pinDir' = dir
    /\ pinOk' = TRUE
    /\ traceAtCall' = 0
    /\ mpc' = 1
    /\ rpc' = 0
    /\ page' = 0
    /\ buffer' = NoBuffer
    /\ reading' = 0
    /\ vad' = -1
    /\ measureRet' = FALSE
    /\ crcOk' = <<>>
    /\ trace' = <<>>
    /\ pc' = "measure"
    /\ UNCHANGED searchVars

\* return from ds2438_measure
MeasureReturn(val) ==
    /\ measureRet' = val
    /\ pc' = "returned"

\* a reset of ds2438_measure whose failure is not tested
MeasureResetFails_Ignored(present) == FALSE

\* "if (!onewire_reset(io)) return false;"
MeasureResetFails(present) == ~present

\* lines 378, 389, 396, 413, 423, 430
MeasureReset ==
    /\ pc = "measure"
    /\ MeasureOps[mpc].k = "reset"
    /\ Drive(onewire_reset)
    /\ \E present \in Presence :
          /\ trace' = Append(trace, Ev("reset", IF present THEN 1 ELSE 0))
          /\ IF MeasureResetFails(present)
             THEN /\ MeasureReturn(FALSE)
                  /\ UNCHANGED mpc
             ELSE /\ mpc' = mpc + 1
                  /\ UNCHANGED <<measureRet, pc>>
    /\ UNCHANGED <<devices, faulty, rpc, page, buffer, reading, vad, output,
                   outputAtCall, crcOk, traceAtCall>>
    /\ UNCHANGED searchVars

\* the onewire_write calls of ds2438_measure
MeasureWrite ==
    /\ pc = "measure"
    /\ MeasureOps[mpc].k = "write"
    /\ trace' = Append(trace, Ev("write", MeasureOps[mpc].b))
    /\ Drive(onewire_write)
    /\ mpc' = mpc + 1
    /\ UNCHANGED <<pc, devices, faulty, rpc, page, buffer, reading, vad, output,
                   outputAtCall, measureRet, crcOk, traceAtCall>>
    /\ UNCHANGED searchVars

\* lines 403 and 434: the call of ds2438_read_slave(io, 0, buffer)
MeasureReadSlave ==
    /\ pc = "measure"
    /\ MeasureOps[mpc].k = "read_slave"
    /\ page' = MeasureOps[mpc].b
    /\ rpc' = 1
    /\ traceAtCall' = Len(trace)
    /\ pc' = "read_slave"
    /\ UNCHANGED <<devices, faulty, trace, mpc, buffer, reading, vad, output,
                   outputAtCall, measureRet, crcOk, pinDir, pinOk>>
    /\ UNCHANGED searchVars

\* return from ds2438_read_slave to the statement after the call
ReadSlaveReturn(val) ==
    /\ reading' = val
    /\ rpc' = 0
    /\ mpc' = mpc + 1
    /\ pc' = "measure"

\* lines 346-348 and 354-356
ReadSlaveReset ==
    /\ pc = "read_slave"
    /\ ReadSlaveOps[rpc].k = "reset"
    /\ Drive(onewire_reset)
    /\ \E present \in Presence :
          /\ trace' = Append(trace, Ev("reset", IF present THEN 1 ELSE 0))
          /\ IF present
             THEN /\ rpc' = rpc + 1
                  /\ UNCHANGED <<reading, mpc, pc>>
             ELSE ReadSlaveReturn(kDS2438_DeviceNotFound)
    /\ UNCHANGED <<devices, faulty, page, buffer, vad, output, outputAtCall,
                   measureRet, crcOk, traceAtCall>>
    /\ UNCHANGED searchVars

\* lines 350-352 and 358-360
ReadSlaveWrite ==
    /\ pc = "read_slave"
    /\ ReadSlaveOps[rpc].k \in {"write", "page"}
    /\ trace' = Append(trace, Ev("write", IF ReadSlaveOps[rpc].k = "page"
                                          THEN page ELSE ReadSlaveOps[rpc].b))
    /\ Drive(onewire_write)
    /\ rpc' = rpc + 1
    /\ UNCHANGED <<pc, devices, faulty, mpc, page, buffer, reading, vad, output,
                   outputAtCall, measureRet, crcOk, traceAtCall>>
    /\ UNCHANGED searchVars

\* one iteration of lines 362-364: buffer[i] = onewire_read(io)
ReadSlaveRead ==
    /\ pc = "read_slave"
    /\ ReadSlaveOps[rpc].k = "read"
    /\ \E byte \in ScratchBytes(ReadSlaveOps[rpc].b, buffer) :
          buffer' = [buffer EXCEPT ![ReadSlaveOps[rpc].b + 1] = byte]
    /\ trace' = Append(trace, Ev("read", ReadSlaveOps[rpc].b))
    /\ Drive(onewire_read)
    /\ rpc' = rpc + 1
    /\ UNCHANGED <<pc, devices, faulty, mpc, page, reading, vad, output,
                   outputAtCall, measureRet, crcOk, traceAtCall>>
    /\ UNCHANGED searchVars

\* line 367: crc8(buffer, 8) != buffer[kScratchPad_CRC]
ScratchPadCrcFails(b) == crc8(b, 8) # b[kScratchPad_CRC + 1]

\* lines 366-371
ReadSlaveCheck ==
    /\ pc = "read_slave"
    /\ ReadSlaveOps[rpc].k = "check"
    /\ crcOk' = Append(crcOk, CrcLoop(0, buffer, 0, 8) = buffer[9])
    /\ ReadSlaveReturn(IF ScratchPadCrcFails(buffer)
                       THEN kDS2438_CrcCheckFailed ELSE 0)
    /\ UNCHANGED <<devices, faulty, trace, page, buffer, vad, output,
                   outputAtCall, measureRet, traceAtCall, pinDir, pinOk>>
    /\ UNCHANGED searchVars

\* the tests of the value of ds2438_read_slave with the checksum one missing
ReadingFails_CrcIgnored(val) == val = kDS2438_DeviceNotFound

\* lines 404-408 and 435-439
ReadingFails(val) ==
    val = kDS2438_CrcCheckFailed \/ val = kDS2438_DeviceNotFound

\* lines 410 and 441: (uint16_t)(((buffer[VMSB] << 8) | buffer[VLSB]) * 10)
Voltage(b) ==
    ((b[kScratchPad_VMSB + 1] * 256 + b[kScratchPad_VLSB + 1]) * 10) % 65536

\* the temperature MSB read as int8_t
TempInteger_Signed(b) ==
    IF b[kScratchPad_TMSB + 1] >= 128 THEN b[kScratchPad_TMSB + 1] - 256
    ELSE b[kScratchPad_TMSB + 1]

\* line 442: const uint8_t temp_integer = buffer[kScratchPad_TMSB]
TempInteger(b) == b[kScratchPad_TMSB + 1]

\* line 443: (buffer[kScratchPad_TLSB] >> 3) * 32
TempFrac(b) == (b[kScratchPad_TLSB + 1] \div 8) * 32

\* lines 445-448: what the line written by sprintf is computed from
ResultLine(b, v) ==
    [temp_integer |-> TempInteger(b), temp_frac |-> TempFrac(b),
     vad |-> v, vdd |-> Voltage(b)]

\* lines 404-410
MeasureVad ==
    /\ pc = "measure"
    /\ MeasureOps[mpc].k = "vad"
    /\ IF ReadingFails(reading)
       THEN /\ MeasureReturn(FALSE)
            /\ UNCHANGED <<vad, mpc>>
       ELSE /\ vad' = Voltage(buffer)
            /\ mpc' = mpc + 1
            /\ UNCHANGED <<measureRet, pc>>
    /\ UNCHANGED <<devices, faulty, trace, rpc, page, buffer, reading, output,
                   outputAtCall, crcOk, traceAtCall, pinDir, pinOk>>
    /\ UNCHANGED searchVars

\* the sprintf moved in front of the tests of the second read
OutputAfter_BeforeTests(failed, text, line) == line

\* line 448 comes after the returns of lines 435-439: the text buffer
\* keeps its content when the second read failed
OutputAfter(failed, text, line) == IF failed THEN text ELSE line

\* lines 435-449
MeasureResult ==
    /\ pc = "measure"
    /\ MeasureOps[mpc].k = "result"
    /\ output' = OutputAfter(ReadingFails(reading), output,
                             ResultLine(buffer, vad))
    /\ MeasureReturn(~ReadingFails(reading))
    /\ UNCHANGED <<devices, faulty, trace, mpc, rpc, page, buffer, reading, vad,
                   outputAtCall, crcOk, traceAtCall, pinDir, pinOk>>
    /\ UNCHANGED searchVars

\* the caller takes the results of the operation that returned; whatever
\* it calls next starts from its own arguments
Release ==
    /\ pc = "returned"
    /\ pc' = "idle"
    /\ devices' = {}
    /\ faulty' = FALSE
    /\ active' = {}
    /\ state' = FreshState
    /\ bitPosition' = 0
    /\ localLastZeroBranch' = -1
    /\ i' = 0
    /\ len' = 0
    /\ buf' = [j \in BufDomain |-> -1]
    /\ found' = -1
    /\ searchRet' = FALSE
    /\ endCause' = "none"
    /\ yielded' = <<>>
    /\ glitches' = 0
    /\ written' = <<>>
    /\ conflicts' = {}
    /\ pinDir' = "input"
    /\ pinOk' = TRUE
    /\ traceAtCall' = 0
    /\ trace' = <<>>
    /\ mpc' = 0
    /\ rpc' = 0
    /\ page' = 0
    /\ buffer' = NoBuffer
    /\ reading' = 0
    /\ vad' = -1
    /\ output' = Blank
    /\ outputAtCall' = Blank
    /\ measureRet' = FALSE
    /\ crcOk' = <<>>

Next ==
    \/ Release
    \/ CallSearch
    \/ SearchDevicesDone
    \/ SearchDevicesReset
    \/ SearchDevicesCommand
    \/ SearchBit
    \/ SearchNextReturn
    \/ SearchStore
    \/ CallMeasure
    \/ MeasureReset
    \/ MeasureWrite
    \/ MeasureReadSlave
    \/ ReadSlaveReset
    \/ ReadSlaveWrite
    \/ ReadSlaveRead
    \/ ReadSlaveCheck
    \/ MeasureVad
    \/ MeasureResult

Spec == Init /\ [][Next]_vars

(***************************************************************************)
(* ds2438_search alone on a fault-free bus. The program is sequential and  *)
(* nothing in it waits for an event, so a running ds2438_search always     *)
(* takes its next step: weak fairness of each of its steps. Whether the    *)
(* caller calls again is left open.                                        *)
(***************************************************************************)
NextSearch ==
    \/ Release
    \/ CallSearchFaultFree
    \/ SearchDevicesDone
    \/ SearchDevicesReset
    \/ SearchDevicesCommand
    \/ SearchBit
    \/ SearchNextReturn
    \/ SearchStore

SpecSearch ==
    /\ Init
    /\ [][NextSearch]_vars
    /\ WF_vars(SearchDevicesDone)
    /\ WF_vars(SearchDevicesReset)
    /\ WF_vars(SearchDevicesCommand)
    /\ WF_vars(SearchBit)
    /\ WF_vars(SearchNextReturn)
    /\ WF_vars(SearchStore)

(***************************************************************************)
(* The two checksum tests on their own: a transfer whose checksum byte is  *)
(* the crc8 of its data is validated, one bit of it is flipped, and it is  *)
(* validated again. crcOk records the two verdicts.                        *)
(***************************************************************************)
\* the values of the data bytes of a transfer
CrcByteValues == {0, 255}

\* x with bit n of byte k (from 1) flipped
FlipBit(x, k, n) == [x EXCEPT ![k] = Xor8(@, Pow2(n))]

InitCrc ==
    /\ devices = {}
    /\ faulty = FALSE
    /\ active = {}
    /\ bitPosition = 0
    /\ localLastZeroBranch = -1
    /\ i = 0
    /\ len = 0
    /\ buf = [j \in BufDomain |-> -1]
    /\ found = -1
    /\ searchRet = FALSE
    /\ endCause = "none"
    /\ yielded = <<>>
    /\ glitches = 0
    /\ written = <<>>
    /\ conflicts = {}
    /\ pinDir = "input"
    /\ pinOk = TRUE
    /\ traceAtCall = 0
    /\ trace = <<>>
    /\ mpc = 0
    /\ rpc = 0
    /\ page = 0
    /\ reading = 0
    /\ vad = -1
    /\ output = Blank
    /\ outputAtCall = Blank
    /\ measureRet = FALSE
    /\ crcOk = <<>>
    /\ \/ /\ pc = "crc_frame"
          /\ \E d \in [1..8 -> CrcByteValues] : buffer = Append(d, crc8(d, 8))
          /\ state = FreshState
       \/ /\ pc = "crc_rom"
          /\ \E d \in [1..7 -> CrcByteValues] :
                state = [FreshState EXCEPT !.address = Append(d, crc8(d, 7))]
          /\ buffer = NoBuffer

\* after the first verdict a bit is flipped, after the second the run ends
AfterVerdict(kind) == IF Len(crcOk) = 0 THEN kind \o "_flip" ELSE "crc_done"

\* the test of ds2438_read_slave (line 367) on the 9-byte buffer
CrcValidateFrame ==
    /\ pc = "crc_frame"
    /\ crcOk' = Append(crcOk, ~ScratchPadCrcFails(buffer))
    /\ pc' = AfterVerdict("crc_frame")
    /\ UNCHANGED <<devices, faulty, trace, mpc, rpc, page, buffer, reading, vad,
                   output, outputAtCall, measureRet, traceAtCall, pinDir, pinOk>>
    /\ UNCHANGED searchVars

\* one bit of the 9-byte frame is flipped
CrcFlipFrameBit ==
    /\ pc = "crc_frame_flip"
    /\ \E k \in 1..9, n \in 0..7 : buffer' = FlipBit(buffer, k, n)
    /\ pc' = "crc_frame"
    /\ UNCHANGED <<devices, faulty, trace, mpc, rpc, page, reading, vad,
                   output, outputAtCall, measureRet, crcOk, traceAtCall, pinDir,
                   pinOk>>
    /\ UNCHANGED searchVars

\* onewire_check_rom_crc (line 325) on the 8-byte address
CrcValidateRom ==
    /\ pc = "crc_rom"
    /\ crcOk' = Append(crcOk, onewire_check_rom_crc(state))
    /\ pc' = AfterVerdict("crc_rom")
    /\ UNCHANGED <<devices, faulty, trace, mpc, rpc, page, buffer, reading, vad,
                   output, outputAtCall, measureRet, traceAtCall, pinDir, pinOk>>
    /\ UNCHANGED searchVars

\* one bit of the 8-byte address is flipped
CrcFlipRomBit ==
    /\ pc = "crc_rom_flip"
    /\ \E k \in 1..8, n \in 0..7 :
          state' = [state EXCEPT !.address = FlipBit(@, k, n)]
    /\ pc' = "crc_rom"
    /\ UNCHANGED <<devices, faulty, active, bitPosition, localLastZeroBranch,
                   i, len, buf, found, searchRet, endCause, yielded, glitches,
                   trace, written, conflicts, pinDir, pinOk>>
    /\ UNCHANGED measureVars

NextCrc ==
    \/ CrcValidateFrame
    \/ CrcFlipFrameBit
    \/ CrcValidateRom
    \/ CrcFlipRomBit

SpecCrc == InitCrc /\ [][NextCrc]_vars

(***************************************************************************)
(* Properties.                                                             *)
(***************************************************************************)
\* the running or returned operation is ds2438_measure
Measuring == mpc > 0

\* the running or returned operation is ds2438_search
Searching == pc # "idle" /\ mpc = 0

\* ds2438_measure has returned val
MeasureReturned(val) == pc = "returned" /\ Measuring /\ measureRet = val

Yielded == {yielded[k] : k \in 1..Len(yielded)}

ResetSeen(ok) == \E k \in 1..Len(trace) : trace[k] = Ev("reset", ok)

\* slot n of the caller's buffer
Slot(n) == [k \in 1..8 |-> buf[8 * n + k - 1]]

\* number of 8-byte slots of the caller's buffer that were written
SlotsWritten == Cardinality({n \in 0..(MaxSlots + 2) : buf[8 * n] # -1})

\* C1: on a fault-free bus with N >= 1 devices, the successful search steps
\* of a session yield distinct addresses of devices on the bus; once done
\* is set every one of the N devices has been yielded, and the session
\* that ends because a step found the search done has yielded exactly N.
C1_SearchDeterminism ==
    (Searching /\ ~faulty /\ devices # {}) =>
        /\ \A a, b \in 1..Len(yielded) : a # b => yielded[a] # yielded[b]
        /\ Yielded \subseteq devices
        /\ state.done => Yielded = devices
        /\ (pc = "returned" /\ endCause = "done") =>
               Len(yielded) = Cardinality(devices)

C3_NoPresence ==
    ~ResetSeen(1) =>
        /\ \A k \in 1..Len(trace) : trace[k].op # "write"
        /\ (pc = "returned" /\ Searching) => found = 0
        /\ (pc = "returned" /\ Measuring) => MeasureReturned(FALSE)

\* an operation that returned on a bus without devices after its one reset
C3_Witness ==
    /\ pc = "returned"
    /\ devices = {}
    /\ ~faulty
    /\ trace = <<Ev("reset", 0)>>
    /\ (Searching /\ found = 0) \/ MeasureReturned(FALSE)

\* C4: a reset that observes no presence pulse is the last bus operation of
\* ds2438_search, ds2438_read_slave and ds2438_measure (nothing is written,
\* read or reset after it), and the operation reports failure: the search
\* loop ends, ds2438_read_slave returns DeviceNotFound and ds2438_measure
\* returns false.
C4_ResetFailureAborts ==
    \A k \in 1..Len(trace) :
        trace[k] = Ev("reset", 0) =>
            /\ k = Len(trace)
            /\ \/ /\ pc = "returned"
                  /\ Searching
                  /\ endCause = "noPresence"
                  /\ searchRet = FALSE
                  /\ found = i
               \/ MeasureReturned(FALSE)
               \/ /\ pc = "measure"
                  /\ MeasureOps[mpc].k \in {"vad", "result"}
                  /\ reading = kDS2438_DeviceNotFound

\* ds2438_measure returned after the second reset of its second
\* ds2438_read_slave found no presence, all earlier resets having succeeded
C4_Witness ==
    /\ MeasureReturned(FALSE)
    /\ Len(crcOk) = 1
    /\ Cardinality({k \in 1..Len(trace) : trace[k] = Ev("reset", 1)}) = 9
    /\ trace[Len(trace)] = Ev("reset", 0)

\* C5: ds2438_measure returns true only if it read two frames and the
\* checksum byte of each matched; when the checksum of a frame did not
\* match it returns false and the text buffer holds nothing of that frame.
C5_MeasureNeedsBothCrc ==
    /\ MeasureReturned(TRUE) => (Len(crcOk) = 2 /\ crcOk[1] /\ crcOk[2])
    /\ (pc = "returned" /\ Measuring /\ \E k \in 1..Len(crcOk) : ~crcOk[k]) =>
           (MeasureReturned(FALSE) /\ output = outputAtCall)

\* ds2438_measure returned after a second frame whose checksum byte was wrong
C5_Witness ==
    /\ MeasureReturned(FALSE)
    /\ Len(crcOk) = 2
    /\ crcOk[1]
    /\ ~crcOk[2]

\* C6: the text buffer differs from what the caller passed only once
\* ds2438_measure has returned true; whenever it returns false the buffer
\* is as the caller passed it.
C6_OutputOnlyOnSuccess ==
    Measuring =>
        /\ MeasureReturned(FALSE) => output = outputAtCall
        /\ output # outputAtCall => MeasureReturned(TRUE)

\* ds2438_measure returned false at its last test, with a line of an
\* earlier measurement still in the text buffer
C6_Witness ==
    /\ MeasureReturned(FALSE)
    /\ MeasureOps[mpc].k = "result"
    /\ outputAtCall = StaleLine
    /\ output = StaleLine

\* C7: on a fault-free bus with exactly one device the first search step
\* succeeds, leaves that device's address in the state and sets done; no
\* second step succeeds: the session yields exactly that one address.
C7_SingleDevice ==
    (Searching /\ ~faulty /\ Cardinality(devices) = 1) =>
        /\ Len(yielded) <= 1
        /\ Len(yielded) = 1 =>
              /\ yielded[1] \in devices
              /\ state.address = yielded[1]
              /\ state.done
        /\ pc = "returned" =>
              /\ Len(yielded) = 1
              /\ endCause \in {"done", "capacity"}
              /\ endCause = "done" => searchRet = FALSE

\* a session with one device that ended with the second search step
\* returning false
C7_Witness ==
    /\ pc = "returned"
    /\ Searching
    /\ ~faulty
    /\ Cardinality(devices) = 1
    /\ endCause = "done"
    /\ yielded = <<state.address>>
    /\ state.address \in devices

\* C8 as stated: the status of a search step that read 11 differs from the
\* status at the end of the enumeration and from the status of a failed
\* reset.
C8_FaultStatusDistinct ==
    (pc = "returned" /\ Searching /\ endCause = "busFault") =>
        /\ searchRet # StepStatus("done")
        /\ searchRet # StepStatus("noPresence")

\* C8 amended: a search step that reads 11 returns false at once, done stays
\* unset and the loop of ds2438_search ends; false is also what the step
\* returns at the end of the enumeration and after a failed reset.
C8_FaultIsPlainFailure ==
    (pc = "returned" /\ Searching /\ endCause = "busFault") =>
        /\ searchRet = FALSE
        /\ searchRet = StepStatus("done")
        /\ searchRet = StepStatus("noPresence")
        /\ ~state.done
        /\ bitPosition < 64
        /\ found = i

\* a search step that read 11 after the devices dropped off the bus
C8_Witness ==
    /\ pc = "returned"
    /\ Searching
    /\ endCause = "busFault"
    /\ active = {}
    /\ trace[Len(trace)] = Ev("write", kSearchRom)

\* C9: the integer part of the temperature in the result of ds2438_measure
\* is the temperature MSB read as a signed 8-bit integer.
C9_SignedTemperature ==
    MeasureReturned(TRUE) =>
        output.temp_integer = TempInteger_Signed(buffer)

\* C10: a transfer whose checksum byte is the crc8 of its data (7 bytes of
\* an address, 8 bytes of a frame) passes the test, and with any one bit of
\* its data or of its checksum byte flipped it fails the test.
C10_CrcRoundTripAndSingleBit ==
    /\ Len(crcOk) >= 1 => crcOk[1]
    /\ Len(crcOk) >= 2 => ~crcOk[2]

\* an address that passed the test and, with one bit flipped, failed it
C10_Witness ==
    /\ pc = "crc_done"
    /\ crcOk = <<TRUE, FALSE>>
    /\ buffer = NoBuffer
    /\ state.address[8] # CrcLoop(0, state.address, 0, 7)

\* the address yielded by the previous successful search step
PreviousAddress == yielded[Len(yielded)]

\* the running search step has just handled position p, whose reading was 00
ConflictHandled(p) ==
    /\ pc = "search_bit"
    /\ p = bitPosition
    /\ bitPosition' = p + 1
    /\ p \in conflicts'

\* C11: in a search step, at every conflict position p below the previous
\* pass's lastZeroBranch, the bit written on the bus and the bit stored at
\* position p of address are the bit at position p of the address yielded
\* by the previous successful step (so no earlier store of the step has
\* changed the bit that is replayed here).
C11_ReplayBelowPivot ==
    [][\A p \in 0..63 :
          (ConflictHandled(p) /\ p < state.lastZeroBranch) =>
              /\ written'[p + 1] = AddrBit(PreviousAddress, p)
              /\ AddrBit(state'.address, p) = AddrBit(PreviousAddress, p)]_vars

\* the conflict positions of the current search step where a 0 was written
ZeroBranches == {p \in conflicts : written[p + 1] = 0}

Highest(S) == CHOOSE m \in S : \A q \in S : q <= m

\* C12: when a search step has run through all 64 positions, then if it
\* wrote 0 at one or more conflict positions, lastZeroBranch becomes the
\* highest of them and done stays false; if it wrote 0 at none, done
\* becomes true and lastZeroBranch keeps its value.
C12_LastZeroBranch ==
    [][(pc = "search_bit" /\ pc' = "search_store") =>
          /\ Len(written) = 64
          /\ ~state.done
          /\ IF ZeroBranches # {}
             THEN /\ state'.lastZeroBranch = Highest(ZeroBranches)
                  /\ ~state'.done
             ELSE /\ state'.done
                  /\ state'.lastZeroBranch = state.lastZeroBranch]_vars

\* a later step of a session has ended with a conflict below the previous
\* pivot replayed as 0, which is now the last zero branch
C12_Witness ==
    /\ pc = "search_store"
    /\ ~faulty
    /\ Len(yielded) >= 2
    /\ ~state.done
    /\ \E p, q \in conflicts :
          /\ p < q
          /\ written[p + 1] = 0
          /\ written[q + 1] = 1
          /\ state.lastZeroBranch = p

\* the step that ends the search because its reset saw no presence pulse
ResetFailureStep ==
    /\ pc = "search_loop"
    /\ pc' = "returned"
    /\ endCause' = "noPresence"

\* C13: a search step whose reset observes no presence pulse returns false
\* and leaves lastZeroBranch, done and the 8 address bytes as they were
\* before the call; the reset is its only bus operation.
C13_FailedResetKeepsState ==
    [][ResetFailureStep =>
          /\ searchRet' = FALSE
          /\ state'.lastZeroBranch = state.lastZeroBranch
          /\ state'.done = state.done
          /\ \A k \in 1..8 : state'.address[k] = state.address[k]
          /\ trace' = Append(trace, Ev("reset", 0))]_vars

\* a session whose first step found a device and whose second step saw no
\* presence pulse: the state is the one the first step left
C13_Witness ==
    /\ pc = "returned"
    /\ Searching
    /\ endCause = "noPresence"
    /\ Len(yielded) = 1
    /\ state.lastZeroBranch >= 0
    /\ ~state.done
    /\ state.address = yielded[1]

IsPrefix(a, b) == Len(a) <= Len(b) /\ a = SubSeq(b, 1, Len(a))

\* the bus operations of the current or last call of ds2438_read_slave
ReadSlaveTrace == SubSeq(trace, traceAtCall + 1, Len(trace))

\* ds2438_read_slave has returned and its value is in "reading"
ReadSlaveReturned ==
    /\ pc \in {"measure", "returned"}
    /\ Measuring
    /\ MeasureOps[mpc].k \in {"vad", "result"}

\* reset, 0xCC, 0xB8, page, reset, 0xCC, 0xBE, page, then 9 byte reads
TransactionOf(pg) ==
    << Ev("reset", 1), Ev("write", 204), Ev("write", 184), Ev("write", pg),
       Ev("reset", 1), Ev("write", 204), Ev("write", 190), Ev("write", pg),
       Ev("read", 0), Ev("read", 1), Ev("read", 2), Ev("read", 3),
       Ev("read", 4), Ev("read", 5), Ev("read", 6), Ev("read", 7),
       Ev("read", 8) >>

\* the last bus operation of t is a reset without presence pulse
EndsInFailedReset(t) == t # <<>> /\ t[Len(t)] = Ev("reset", 0)

\* C14: the bus operations of ds2438_read_slave are, in order, reset, 0xCC,
\* 0xB8, page, reset, 0xCC, 0xBE, page and 9 byte reads, cut short only by
\* a reset without presence. It returns DeviceNotFound exactly when one of
\* its two resets saw no presence (no byte is read then), CrcCheckFailed
\* exactly when both resets succeeded and crc8 of bytes 0..7 differs from
\* byte 8, and 0 otherwise.
C14_ReadSlaveTransaction ==
    LET t == ReadSlaveTrace
        all == TransactionOf(page)
    IN  /\ (pc = "read_slave" /\ ~EndsInFailedReset(t)) => IsPrefix(t, all)
        /\ ReadSlaveReturned =>
              /\ (reading = kDS2438_DeviceNotFound) <=> EndsInFailedReset(t)
              /\ EndsInFailedReset(t) =>
                    /\ Len(t) \in {1, 5}
                    /\ IsPrefix(SubSeq(t, 1, Len(t) - 1), all)
              /\ ~EndsInFailedReset(t) =>
                    /\ t = all
                    /\ (reading = kDS2438_CrcCheckFailed) <=>
                           (CrcLoop(0, buffer, 0, 8) # buffer[9])
                    /\ reading \in {0, kDS2438_CrcCheckFailed}

\* the second call of ds2438_read_slave has returned CrcCheckFailed after
\* its 9 byte reads
C14_Witness ==
    /\ pc = "measure"
    /\ MeasureOps[mpc].k = "result"
    /\ reading = kDS2438_CrcCheckFailed
    /\ Len(ReadSlaveTrace) = 17
    /\ ReadSlaveTrace[17] = Ev("read", 8)

\* a command group: a successful reset, the broadcast select 0xCC, the bytes
Group(bytes) ==
    <<Ev("reset", 1), Ev("write", 204)>>
    \o [k \in 1..Len(bytes) |-> Ev("write", bytes[k])]

\* a page-0 read: recall (0xB8, page 0), then reset, 0xCC, read scratchpad
\* (0xBE, page 0) and the 9 bytes
PageRead ==
    Group(<<184, 0>>) \o Group(<<190, 0>>)
    \o [k \in 1..9 |-> Ev("read", k - 1)]

\* the seven command groups in the order of the claim; one more successful
\* reset (line 430) stands in front of the last group
SuccessfulMeasureTrace ==
    Group(<<78, 0, 0>>) \o Group(<<68>>) \o Group(<<180>>) \o PageRead
    \o Group(<<78, 0, 8>>) \o Group(<<180>>)
    \o <<Ev("reset", 1)>> \o PageRead

\* (VMSB << 8 | VLSB) * 10 of a frame, as uint16_t
FrameVoltage(b) == ((b[5] * 256 + b[4]) * 10) % 65536

\* ds2438_measure has just computed vad
VadJustTaken ==
    /\ pc = "measure"
    /\ mpc > 1
    /\ MeasureOps[mpc - 1].k = "vad"

\* C15: a ds2438_measure run that returns true has put on the bus, in this
\* order and each behind a successful reset and 0xCC: 0x4E 0x00 0x00 (VAD),
\* 0x44, 0xB4, the first page-0 read, 0x4E 0x00 0x08 (VDD), 0xB4, the
\* second page-0 read. VAD is computed from the first frame read and does
\* not change afterwards; VDD and the temperature come from the second.
C15_MeasureSequence ==
    /\ [](/\ VadJustTaken =>
               /\ Len(crcOk) = 1
               /\ vad = FrameVoltage(buffer)
          /\ MeasureReturned(TRUE) =>
               /\ trace = SuccessfulMeasureTrace
               /\ Len(crcOk) = 2
               /\ output.vad = vad
               /\ output.vdd = FrameVoltage(buffer)
               /\ output.temp_integer = buffer[3]
               /\ output.temp_frac = (buffer[2] \div 8) * 32)
    /\ [][(Measuring /\ vad # -1 /\ pc # "returned") => vad' = vad]_vars

\* ds2438_measure returned true with a VAD (from the first frame) that
\* differs from the VDD (from the second)
C15_Witness ==
    /\ MeasureReturned(TRUE)
    /\ output.vad = 2440
    /\ output.vdd = 5000
    /\ Len(trace) = 54

\* the session is running: ds2438_search has been called and not returned
SessionRunning == Searching /\ pc # "returned"

\* C16 as stated: on a fault-free bus, for every device set and capacity,
\* the loop of ds2438_search returns after finitely many search steps, and
\* it ends because a step found the search done or because the capacity
\* was exhausted.
C16_SearchTerminates ==
    /\ SessionRunning ~> (pc = "returned")
    /\ [](pc = "returned" => endCause \in {"done", "capacity"})

\* C16 amended: the loop returns after finitely many search steps; with one
\* or more devices on the bus it ends because a step found the search done
\* or because the capacity was exhausted, and with no device on the bus it
\* ends at the first step, whose reset sees no presence pulse.
C16_SearchTerminatesOrNoDevice ==
    /\ SessionRunning ~> (pc = "returned")
    /\ [](pc = "returned" =>
             IF devices = {}
             THEN endCause = "noPresence" /\ yielded = <<>>
             ELSE endCause \in {"done", "capacity"})

\* a session over three devices that returned because the search was done
C16_Witness ==
    /\ pc = "returned"
    /\ Cardinality(devices) = 3
    /\ endCause = "done"
    /\ Len(yielded) = 3
    /\ len = 8 * MaxSlots

\* the address in the state is the one the last successful search step left:
\* a step has succeeded and no later step has begun to overwrite it (a step
\* that returned at line 270 has overwritten part of it)
AddressLeft ==
    /\ Searching
    /\ Len(yielded) >= 1
    /\ pc # "search_bit"
    /\ endCause # "busFault"

\* C17: on a fault-free bus, the address a successful search step leaves
\* in the state is the address of a device on the bus, and its 64 bits are
\* the 64 bits the step wrote on the bus, in every pass of a session.
C17_SearchSound ==
    (AddressLeft /\ ~faulty) =>
        /\ state.address \in devices
        /\ Len(written) = 64
        /\ \A p \in 0..63 : AddrBit(state.address, p) = written[p + 1]

\* the third step of a session over the whole universe has left the
\* address of the device with serial byte 0x06
C17_Witness ==
    /\ pc = "search_store"
    /\ ~faulty
    /\ devices = Universe
    /\ Len(yielded) = 3
    /\ state.address = Rom(4)
    /\ written[10] = 1
    /\ written[11] = 1

\* after a successful search step that did not set done, lastZeroBranch is
\* a bit position whose bit of address is 0
BranchIsZeroBit ==
    (AddressLeft /\ ~state.done) =>
        /\ state.lastZeroBranch \in 0..63
        /\ AddrBit(state.address, state.lastZeroBranch) = 0

\* C18 as stated: after every successful search step that does not set
\* done, lastZeroBranch lies in 0..63 and the bit of address at that
\* position is 0; lastZeroBranch is -1 only before the first successful
\* step of a session.
C18_LastZeroBranchRange ==
    /\ BranchIsZeroBit
    /\ (Searching /\ state.lastZeroBranch = -1) => Len(yielded) = 0

\* C18 amended: lastZeroBranch is -1 only before the first successful step
\* of a session, or after a first successful step that set done (a step
\* that sets done leaves lastZeroBranch as it was).
C18_LastZeroBranchRangeOrDone ==
    /\ BranchIsZeroBit
    /\ (Searching /\ state.lastZeroBranch = -1) =>
           \/ Len(yielded) = 0
           \/ Len(yielded) = 1 /\ state.done

\* the second step of a session has succeeded without setting done and
\* left bit 10, where it wrote 0, as the last zero branch
C18_Witness ==
    /\ pc = "search_loop"
    /\ Len(yielded) = 2
    /\ ~state.done
    /\ state.lastZeroBranch = 10
    /\ AddrBit(state.address, 10) = 0
    /\ AddrBit(state.address, 11) = 1

\* C19: in every sequence of operations of ds2438_search and
\* ds2438_measure, whatever direction the pin had at the call, every
\* onewire_write_bit happens while the pin is configured as output and
\* every gpio_input_read sample while it is configured as input.
C19_PinDiscipline == pinOk

\* ds2438_measure has run through all its resets, writes and reads with
\* the pin in the right direction at each, and left it as input
C19_Witness ==
    /\ MeasureReturned(TRUE)
    /\ Len(trace) = 54
    /\ pinOk
    /\ pinDir = "input"

\* the 9 bytes read when the line is low at every sample
ZeroFrame == <<0, 0, 0, 0, 0, 0, 0, 0, 0>>

\* C20: ds2438_measure never returns true with VDD = 0, the divisor of the
\* humidity formula; in particular it returns false when every reset saw
\* presence and every scratchpad byte read 0x00.
C20_NoZeroVdd ==
    /\ MeasureReturned(TRUE) => output.vdd # 0
    /\ (pc = "returned" /\ Measuring /\ ~ResetSeen(0)
          /\ Len(crcOk) = 2 /\ vad = 0 /\ buffer = ZeroFrame) =>
           MeasureReturned(FALSE)

====
